---- MODULE Spec2Model ----
(***************************************************************************)
(* Model of the OneBot protocol client of Adachi-BOT:                      *)
(*   BaseClient   (src/src/modules/lib/core/base-client.ts, lines 26-435)  *)
(*   EventEmitter (same file, lines 447-510)                               *)
(* The socket wrapper WsMessage (@/utils/message) is not part of the       *)
(* sources at hand; its four operations are modelled from the design       *)
(* document (section 4.1).                                                 *)
(***************************************************************************)
EXTENDS Integers, Sequences, FiniteSets, TLC

VARIABLES
    eventTarget,    \* BaseClient.eventTarget
    apiTarget,      \* BaseClient.apiTarget
    shared,         \* TRUE iff wsEvent and wsApi are one WsMessage object
    fetchTimeout,   \* BaseClient.fetchTimeout
    online,         \* BaseClient.online
    gl,             \* BaseClient.gl, a map from group id to the entry of the group
    fl,             \* BaseClient.fl, a map from user id to the entry of the friend
    oneBotVersion,  \* BaseClient.oneBotVersion (0 = null)
    sock,           \* state of the two WsMessage objects
    calls,          \* the fetchApi calls whose promise is not settled yet, by echo
    apiMap,         \* EventEmitter.apiMap
    timers,         \* live setTimeout handles of fetchApi, by echo
    pollers,        \* number of live setInterval timers started by connect()
    eventMap,       \* EventEmitter.eventMap
    fired           \* for each on/once registration made: its flag and its invocations

vars == << eventTarget, apiTarget, shared, fetchTimeout, online, gl, fl,
           oneBotVersion, sock, calls, apiMap, timers, pollers,
           eventMap, fired >>

clientVars == << eventTarget, apiTarget, shared, fetchTimeout, online, gl, fl,
                 oneBotVersion, sock, calls, apiMap, timers, pollers >>

----------------------------------------------------------------------------
(* Bounds *)
MaxCalls == 3
MaxConnects == 2
MaxRegs == 3
MaxEmits == 3

(* Program constants *)
RetNotLogin == 401
RetTimeout == 408
RetAsync == 1
uin == 0

Echoes == 1..MaxCalls
Timeouts == {1, 2}
Payloads == {1}
Targets == {"a", "b"}
Events == {"message", "notice"}
Listeners == {"f", "g"}
ApiTargets == {"", "a", "b"}
InitTargets == {"", "b"}

----------------------------------------------------------------------------
(* Response values *)

Resp(retcode, status, data, msg, echo) ==
    [retcode |-> retcode, status |-> status, data |-> data, msg |-> msg, echo |-> echo]

NoResp == Resp(-1, "", 0, "", 0)

NotLoginResp(echo) == Resp(RetNotLogin, "failed", 0, "Not_Login", echo)

TimeoutResp(action, echo) ==
    Resp(RetTimeout, "failed", 0, "Action " \o action \o " Request_Timeout", echo)

(* One entry of the trace of an operation: what it did, in program order.
   The trace is the field eff of the state record the operation works on. *)
Eff(k, name, n, arg, val) == [k |-> k, name |-> name, n |-> n, arg |-> arg, val |-> val]

RECURSIVE SelectEff(_, _)
SelectEff(s, k) ==
    IF s = << >> THEN << >>
    ELSE IF Head(s).k = k THEN << Head(s) >> \o SelectEff(Tail(s), k)
         ELSE SelectEff(Tail(s), k)

RECURSIVE Names(_)
Names(s) == IF s = << >> THEN << >> ELSE << Head(s).name >> \o Names(Tail(s))

RECURSIVE Nums(_)
Nums(s) == IF s = << >> THEN << >> ELSE << Head(s).n >> \o Nums(Tail(s))

Published(s) == Names(SelectEff(s, "emit"))
Fetched(s) == Names(SelectEff(s, "fetch"))
Invoked(s) == Nums(SelectEff(s, "invoke"))

----------------------------------------------------------------------------
(* EventEmitter: the listener registry *)

Entry(listener, once, id) == [listener |-> listener, once |-> once, id |-> id]

(* eventMap.get( event ) || [] *)
ListenersOf(em, event) == IF event \in DOMAIN em THEN em[event] ELSE << >>

(* onHandle: push onto the event's array, or create the array *)
OnHandle(em, event, listener, once, id) ==
    IF event \in DOMAIN em
    THEN [em EXCEPT ![event] = Append(@, Entry(listener, once, id))]
    ELSE em @@ (event :> << Entry(listener, once, id) >>)

(* the index of the last match instead of the first *)
FindLastIndex(list, listener) ==
    LET hits == {i \in 1..Len(list) : list[i].listener = listener}
    IN  IF hits = {} THEN 0 ELSE CHOOSE i \in hits : \A j \in hits : i >= j

(* listeners.findIndex( item => item.listener === listener ), 0 for "not found" *)
FindIndex(list, listener) ==
    LET hits == {i \in 1..Len(list) : list[i].listener = listener}
    IN  IF hits = {} THEN 0 ELSE CHOOSE i \in hits : \A j \in hits : i <= j

(* listeners.splice( index, 1 ) *)
Splice(list, index) ==
    [i \in 1..(Len(list) - 1) |-> IF i < index THEN list[i] ELSE list[i + 1]]

(* off on one event's array *)
OffList(list, listener) ==
    LET index == FindIndex(list, listener)
    IN  IF index # 0 THEN Splice(list, index) ELSE list

(* off( event, listener ) *)
Off(em, event, listener) ==
    IF event \in DOMAIN em THEN [em EXCEPT ![event] = OffList(@, listener)] ELSE em

(* Array.prototype.forEach over the live array: the indices 1..len of the
   array as it was when the loop started are visited in order, an index the
   array no longer has is passed over, and the element visited is the one
   that is at the index now.  acc = [list, fired, arg, eff]. *)
RECURSIVE EmitLoop(_, _, _, _)
EmitLoop(acc, event, k, len) ==
    IF k > len THEN acc
    ELSE IF k > Len(acc.list) THEN EmitLoop(acc, event, k + 1, len)
    ELSE LET item == acc.list[k]
             called == [acc EXCEPT
                          !.fired = [@ EXCEPT ![item.id].n = @ + 1],
                          !.eff = Append(@, Eff("invoke", event, item.id, acc.arg, NoResp))]
             after == IF item.once
                      THEN [called EXCEPT !.list = OffList(@, item.listener)]
                      ELSE called
         IN  EmitLoop(after, event, k + 1, len)

(* emit( event, ...data ) on a state record with fields eventMap, fired, eff *)
Emit(st, event, arg) ==
    LET list == ListenersOf(st.eventMap, event)
        start == [list |-> list, fired |-> st.fired, arg |-> arg,
                  eff |-> Append(st.eff, Eff("emit", event, 0, arg, NoResp))]
        done == EmitLoop(start, event, 1, Len(list))
    IN  [st EXCEPT
           !.eventMap = IF event \in DOMAIN @ THEN [@ EXCEPT ![event] = done.list] ELSE @,
           !.fired = done.fired,
           !.eff = done.eff]

(* a check that takes no notice for a private one *)
CheckNoticePrivateNever(noticeType) == FALSE

(* checkNoticePrivateEvent *)
CheckNoticePrivateEvent(noticeType) == noticeType \in {"friend_add", "friend_recall"}

----------------------------------------------------------------------------
(* EventEmitter: the correlation table.  A resolver is named by the echo of
   the fetchApi call whose promise it resolves. *)

(* onApi( event, listener ) *)
(* a registration that is lost *)
OnApiDropped(am, event, listener) == am

(* a registration that replaces the earlier ones *)
OnApiReplace(am, event, listener) ==
    [e \in DOMAIN am \cup {event} |-> IF e = event THEN << listener >> ELSE am[e]]

OnApi(am, event, listener) ==
    IF event \in DOMAIN am
    THEN [am EXCEPT ![event] = Append(@, listener)]
    ELSE am @@ (event :> << listener >>)

(* an entry that stays in the map *)
MapKeep(am, event) == am

(* apiMap.delete( event ) *)
MapDelete(am, event) == [e \in DOMAIN am \ {event} |-> am[e]]

(* a timer that is left running *)
ClearTimeoutKept(tm, c) == tm

(* clearTimeout( timer ) *)
ClearTimeout(tm, c) == [e \in DOMAIN tm \ {c} |-> tm[e]]

(* the promise of call c is settled: the call is pending no more *)
Settle(cs, c) == [e \in DOMAIN cs \ {c} |-> cs[e]]

(* The data member of a response is named by a number: 0 is null, d > 0 is
   the array DataArrays[d] of directory entries. *)
Row(id, name) == [id |-> id, name |-> name]

DataArrays ==
    << << Row(1, "x") >>,
       << Row(1, "x"), Row(2, "y") >>,
       << Row(2, "y"), Row(2, "z") >>,
       << >> >>

IsArray(d) == d \in DOMAIN DataArrays
Rows(d) == DataArrays[d]

(* new Map() *)
EmptyDir == << >>

(* new Map( rows.map( d => [ d.group_id, d ] ) ): one entry for each id of
   the array; of several rows with one id the last one stays *)
MapOf(rows) ==
    [k \in {rows[i].id : i \in DOMAIN rows} |->
        rows[CHOOSE i \in DOMAIN rows :
                 rows[i].id = k /\ \A j \in DOMAIN rows : rows[j].id = k => j <= i]]

(* a continuation that merges the response into the directory it has *)
DirectoryMerged(dir, data) ==
    IF data.retcode = 0
    THEN IF IsArray(data.data)
         THEN LET new == MapOf(Rows(data.data))
              IN  [k \in DOMAIN dir \cup DOMAIN new |->
                      IF k \in DOMAIN new THEN new[k] ELSE dir[k]]
         ELSE dir
    ELSE EmptyDir

(* data => { this.gl = data.retcode === 0 ? new Map( data.data.map( ... ) )
   : new Map() } followed by .catch( () => {} ): data.data.map throws when
   data.data is no array, and the assignment does not take place *)
Directory(dir, data) ==
    IF data.retcode = 0
    THEN IF IsArray(data.data) THEN MapOf(Rows(data.data)) ELSE dir
    ELSE EmptyDir

(* continuations that drop the result of a call resolved while offline *)
ThenOnline(st, action, data) ==
    IF ~st.online THEN st
    ELSE CASE action = "get_version_info" ->
                 [st EXCEPT !.ver = IF data.retcode = 0 THEN data.data ELSE 0]
           [] action = "get_group_list" -> [st EXCEPT !.gl = Directory(@, data)]
           [] action = "get_friend_list" -> [st EXCEPT !.fl = Directory(@, data)]
           [] OTHER -> st

(* The .then continuations of getVersionInfo / setGroupList / setFriendList *)
Then(st, action, data) ==
    CASE action = "get_version_info" ->
            [st EXCEPT !.ver = IF data.retcode = 0 THEN data.data ELSE 0]
      [] action = "get_group_list" -> [st EXCEPT !.gl = Directory(@, data)]
      [] action = "get_friend_list" -> [st EXCEPT !.fl = Directory(@, data)]
      [] OTHER -> st

(* resolve( data ): the first call settles the promise and runs its
   continuation; a call on a settled promise changes nothing *)
Resolve(st, c, data, by) ==
    IF c \in DOMAIN st.calls
    THEN LET action == st.calls[c].action
             st1 == [st EXCEPT
                       !.calls = Settle(@, c),
                       !.eff = Append(@, Eff("resolve", action, c, by, data))]
         IN  Then(st1, action, data)
    ELSE [st EXCEPT !.eff = Append(@, Eff("resolve", "settled", c, by, data))]

(* the resolver registered by fetchApi: data => { clearTimeout( timer ); resolve( data ) } *)
ApiListener(st, c, data, by) ==
    Resolve([st EXCEPT !.timers = ClearTimeout(@, c)], c, data, by)

RECURSIVE RunApiListeners(_, _, _, _)
RunApiListeners(st, listeners, data, by) ==
    IF listeners = << >> THEN st
    ELSE RunApiListeners(ApiListener(st, Head(listeners), data, by), Tail(listeners), data, by)

(* emitApi( event, data ) *)
EmitApi(st, event, data, by) ==
    LET listeners == IF event \in DOMAIN st.apiMap THEN st.apiMap[event] ELSE << >>
        st0 == [st EXCEPT !.eff = Append(@, Eff("emitApi", "", event, by, data))]
        st1 == RunApiListeners(st0, listeners, data, by)
    IN  [st1 EXCEPT !.apiMap = MapDelete(@, event)]

----------------------------------------------------------------------------
(* BaseClient: the request correlator *)

(* a delay that ignores the configured timeout *)
TimerDelayFixed(ft) == 1

(* the delay the timeout timer is armed with *)
TimerDelay(ft) == ft

(* a client that never takes the offline branch *)
IsOfflineNever(st) == FALSE

(* !this.online *)
IsOffline(st) == ~st.online

(* the identifiers some table holds *)
InUse(st) == DOMAIN st.calls \cup DOMAIN st.apiMap \cup DOMAIN st.timers
Slots(st) == Cardinality(InUse(st))

(* Date.now().toString( 36 ) + getRandomString( 6 ): an identifier no live
   entry carries.  An identifier that has left every table is
   indistinguishable from one never used, so its name is used again. *)
FreshEcho(st) ==
    CHOOSE e \in 1..(Slots(st) + 1) :
        e \notin InUse(st) /\ \A d \in 1..(e - 1) : d \in InUse(st)

(* fetchApi( action, params ) *)
FetchApi(st, action) ==
    LET echo == FreshEcho(st)
        called == [st EXCEPT
                     !.calls = @ @@ (echo :> [action |-> action]),
                     !.eff = Append(@, Eff("fetch", action, echo, "", NoResp))]
    IN  IF IsOffline(st)
        THEN Resolve(called, echo, NotLoginResp(echo), "offline")
        ELSE [called EXCEPT
                !.eff = @ \o << Eff("send", action, echo, "", NoResp) >>,
                !.timers = @ @@ (echo :> [action |-> action, left |-> TimerDelay(st.ft)]),
                !.apiMap = OnApi(@, echo, echo)]

(* a timer that fires is no longer live *)
Expire(tm, c) == [e \in DOMAIN tm \ {c} |-> tm[e]]

(* the callback of the timeout timer of call c *)
FireTimer(st, c) ==
    EmitApi([st EXCEPT !.timers = Expire(@, c)],
            c, TimeoutResp(st.timers[c].action, c), "timeout")

GetVersionInfo(st) == FetchApi(st, "get_version_info")
SetGroupList(st) == FetchApi(st, "get_group_list")
SetFriendList(st) == FetchApi(st, "get_friend_list")

----------------------------------------------------------------------------
(* Sockets.  wsEvent is the object "ev"; wsApi is "ev" too when the
   constructor built one WsMessage for both roles, else "api". *)

WsEvent == "ev"
WsApi == IF shared THEN "ev" ELSE "api"

(* get needApiConnect *)
NeedApiConnectOf(et, at) == at # "" /\ at # et
NeedApiConnect == NeedApiConnectOf(eventTarget, apiTarget)

(* WsMessage.connect: a socket that is not there yet starts connecting *)
WsConnect(sk, s) == IF sk[s] = "closed" THEN [sk EXCEPT ![s] = "connecting"] ELSE sk

(* WsMessage.closeConnect *)
WsClose(sk, s) == [sk EXCEPT ![s] = "closed"]

(* WsMessage.isOpen *)
IsOpen(sk, s) == sk[s] = "open"

(* a poll that looks at the event socket only *)
IsReadyEventOnly(sk) == IsOpen(sk, WsEvent)

(* the test of the readiness poll of connect() *)
IsReady(sk) == IsOpen(sk, WsApi) /\ IsOpen(sk, WsEvent)

----------------------------------------------------------------------------
(* Inbound frames *)

Frame(json, hasEcho, echo, retcode, data, postType, metaType, on) ==
    [json |-> json, hasEcho |-> hasEcho, echo |-> echo, retcode |-> retcode,
     data |-> data, post_type |-> postType, meta_event_type |-> metaType, on |-> on,
     sub_type |-> "", notice_type |-> "", request_type |-> "", user_id |-> 0, at |-> -1]

(* text that is not JSON *)
BadFrame == Frame(FALSE, FALSE, 0, -1, 0, "", "", FALSE)

(* a response frame; echo 0 stands for an echo field holding a falsy value *)
RespFrame(echo, retcode, data) == Frame(TRUE, TRUE, echo, retcode, data, "", "", FALSE)

MetaFrame(metaType, on) == Frame(TRUE, FALSE, 0, -1, 0, "meta_event", metaType, on)

(* a message event; at is the qq of its "at" element, -1 when it has none *)
MessageFrame(subType, at) ==
    [Frame(TRUE, FALSE, 0, -1, 0, "message", "", FALSE) EXCEPT !.sub_type = subType, !.at = at]

NoticeFrame(noticeType, subType, userId) ==
    [Frame(TRUE, FALSE, 0, -1, 0, "notice", "", FALSE) EXCEPT
        !.notice_type = noticeType, !.sub_type = subType, !.user_id = userId]

RequestFrame(requestType) ==
    [Frame(TRUE, FALSE, 0, -1, 0, "request", "", FALSE) EXCEPT !.request_type = requestType]

RespFrames ==
    {RespFrame(e, 0, d) : e \in 0..MaxCalls, d \in Payloads}
        \cup {RespFrame(e, r, 0) : e \in 0..MaxCalls, r \in {RetAsync, 100}}

EventFrames == {MetaFrame("lifecycle", FALSE)} \cup {MetaFrame("heartbeat", on) : on \in BOOLEAN}

Frames == RespFrames \cup EventFrames \cup {BadFrame}

MessageSubTypes == {"friend", "group", "normal", "anonymous", "other"}
NoticeTypes ==
    {"friend_add", "friend_recall", "group_recall", "group_increase", "group_decrease",
     "group_admin", "group_upload", "group_ban", "notify", "other"}
(* the sub-types the handling of a notice type looks at, "" for any other *)
NoticeSubTypes(t) ==
    CASE t = "group_decrease" -> {"", "kick_me"}
      [] t = "notify" -> {"", "lucky_king", "honor", "poke"}
      [] OTHER -> {""}
RequestTypes == {"friend", "group", "other"}
UserIds == {uin, uin + 1}

MessageFrames == {MessageFrame(t, a) : t \in MessageSubTypes, a \in {-1} \cup UserIds}
NoticeFrames ==
    UNION {{NoticeFrame(t, b, u) : b \in NoticeSubTypes(t), u \in UserIds} : t \in NoticeTypes}
RequestFrames == {RequestFrame(t) : t \in RequestTypes}

(* the frames of the three event classes the dispatcher publishes *)
PostFrames == MessageFrames \cup NoticeFrames \cup RequestFrames

(* the responses a directory refresh can get: success with null or with any
   of the arrays as data, and a failure *)
ListFrames ==
    {RespFrame(e, 0, d) : e \in 1..MaxCalls, d \in {0} \cup DOMAIN DataArrays}
        \cup {RespFrame(e, 100, 0) : e \in 1..MaxCalls}

(* the notices that refresh a directory: a new friend, the client joining a
   group, leaving one, being kicked from one *)
RefreshNotices ==
    {NoticeFrame("friend_add", "", uin + 1), NoticeFrame("group_increase", "", uin),
     NoticeFrame("group_decrease", "", uin), NoticeFrame("group_decrease", "kick_me", uin + 1)}

HeartbeatFrames == {MetaFrame("heartbeat", on) : on \in BOOLEAN}

(* the ActionResponse a response frame parses to *)
RespOf(f) == Resp(f.retcode, IF f.retcode = 0 THEN "ok" ELSE "failed", f.data, "", f.echo)

----------------------------------------------------------------------------
(* BaseClient: socket handlers *)

(* a heartbeat that is always taken for a change *)
HeartbeatAlways(st, f) == TRUE

(* data.status.online !== this.online *)
HeartbeatChanged(st, f) == f.on # st.online

(* initEventWs, "message": the heartbeat branch *)
Heartbeat(st, f) ==
    IF HeartbeatChanged(st, f)
    THEN LET s1 == [st EXCEPT !.online = f.on]
         IN  IF s1.online
             THEN Emit(SetFriendList(SetGroupList(GetVersionInfo(s1))), "system.online", "frame")
             ELSE Emit(s1, "system.offline", "frame")
    ELSE st

(* initEventWs, "message": the meta_event branch *)
MetaBranch(st, f) ==
    IF f.post_type = "meta_event"
    THEN LET a == IF f.meta_event_type = "lifecycle"
                  THEN Emit(st, "system.lifecycle", "frame") ELSE st
             b == IF f.meta_event_type = "heartbeat" THEN Heartbeat(a, f) ELSE a
         IN  Emit(b, "system", "frame")
    ELSE st

(* a closure that is not attached *)
AttachNothing(payload, name) == payload

(* data.<name> = <closure>: the event object with one more member *)
Attach(payload, name) == payload \o "+" \o name

(* data.atMe = !!atMeEl *)
AtMe(f) == f.at # -1 /\ f.at = uin

(* the event object of a message frame once atMe is set *)
MessageData(f) == IF AtMe(f) THEN "frame+atMe" ELSE "frame"

(* initEventWs, "message": the message branch *)
MessageBranch(st, f) ==
    IF f.post_type = "message"
    THEN LET d0 == MessageData(f)
             private == f.sub_type = "friend" \/ f.sub_type = "group"
             d1 == IF private THEN Attach(d0, "reply") ELSE d0
             s1 == IF private
                   THEN LET a == CASE f.sub_type = "friend" -> Emit(st, "message.private.friend", d1)
                                   [] f.sub_type = "group" -> Emit(st, "message.private.group", d1)
                        IN  Emit(a, "message.private", d1)
                   ELSE st
             public == f.sub_type = "normal" \/ f.sub_type = "anonymous"
             d2 == IF public
                   THEN Attach(Attach(Attach(Attach(d1, "reply"), "recall"), "kick"), "ban")
                   ELSE d1
             s2 == IF public
                   THEN LET a == CASE f.sub_type = "normal" -> Emit(s1, "message.group.normal", d2)
                                   [] f.sub_type = "anonymous" -> Emit(s1, "message.group.anonymous", d2)
                        IN  Emit(a, "message.group", d2)
                   ELSE s1
         IN  Emit(s2, "message", d2)
    ELSE st

(* the switch of the private-scope notices *)
NoticePrivate(st, f) ==
    CASE f.notice_type = "friend_add" -> Emit(SetFriendList(st), "notice.friend.add", "frame")
      [] f.notice_type = "friend_recall" -> Emit(st, "notice.friend.recall", "frame")
      [] OTHER -> st

(* case "notify" *)
NoticeNotify(st, f) ==
    LET a == IF f.sub_type = "lucky_king" THEN Emit(st, "notice.group.lucky_king", "frame") ELSE st
        b == IF f.sub_type = "honor" THEN Emit(a, "notice.group.honor", "frame") ELSE a
    IN  IF f.sub_type = "poke" THEN Emit(b, "notice.group.poke", "frame") ELSE b

(* a client that never recognises itself *)
IsSelfNever(userId) == FALSE

(* data.user_id === this.uin *)
IsSelf(userId) == userId = uin

(* the switch of the group-scope notices *)
NoticeGroup(st, f) ==
    CASE f.notice_type = "group_recall" -> Emit(st, "notice.group.recall", "frame")
      [] f.notice_type = "group_increase" ->
            LET a == Emit(st, "notice.group.increase", "frame")
            IN  IF IsSelf(f.user_id)
                THEN Emit(SetGroupList(a), "notice.group.increase", "frame")
                ELSE Emit(a, "notice.group.member_increase", "frame")
      [] f.notice_type = "group_decrease" ->
            IF f.sub_type = "kick_me" \/ IsSelf(f.user_id)
            THEN Emit(SetGroupList(st), "notice.group.decrease", "frame")
            ELSE Emit(st, "notice.group.member_decrease", "frame")
      [] f.notice_type = "group_admin" -> Emit(st, "notice.group.admin", "frame")
      [] f.notice_type = "group_upload" -> Emit(st, "notice.group.upload", "frame")
      [] f.notice_type = "group_ban" -> Emit(st, "notice.group.ban", "frame")
      [] f.notice_type = "notify" -> NoticeNotify(st, f)
      [] OTHER -> st

(* initEventWs, "message": the notice branch *)
NoticeBranch(st, f) ==
    IF f.post_type = "notice"
    THEN LET a == IF CheckNoticePrivateEvent(f.notice_type)
                  THEN NoticePrivate(st, f)
                  ELSE Emit(NoticeGroup(st, f), "notice.group", "frame")
         IN  Emit(a, "notice", "frame")
    ELSE st

(* initEventWs, "message": the request branch *)
RequestBranch(st, f) ==
    IF f.post_type = "request"
    THEN LET d == Attach("frame", "approve")
             a == CASE f.request_type = "friend" -> Emit(st, "request.friend", d)
                    [] f.request_type = "group" -> Emit(st, "request.group", d)
                    [] OTHER -> st
         IN  Emit(a, "request", IF f.request_type \in {"friend", "group"} THEN d ELSE "frame")
    ELSE st

(* initEventWs, "message": classification of a frame without echo *)
Dispatch(st, f) ==
    RequestBranch(NoticeBranch(MessageBranch(MetaBranch(st, f), f), f), f)

(* initEventWs, "message" *)
EventWsMessage(st, f) ==
    IF ~f.json THEN st
    ELSE IF f.hasEcho THEN st
    ELSE Dispatch(st, f)

(* the return codes initApiWs does not deliver *)
IsDropped(retcode) == retcode = RetAsync

(* initApiWs, "message" *)
ApiWsMessage(st, f) ==
    IF ~f.json THEN st
    ELSE IF ~f.hasEcho \/ f.echo = 0 THEN st
    ELSE IF IsDropped(f.retcode) THEN st
    ELSE EmitApi(st, f.echo, RespOf(f), "response")

(* a close handler that also drops what is pending *)
EventWsCloseCancels(st) ==
    IF st.online
    THEN Emit([st EXCEPT !.online = FALSE, !.calls = << >>, !.apiMap = << >>, !.timers = << >>],
              "system.offline", "null")
    ELSE st

(* a close handler that clears the flag and publishes nothing *)
EventWsCloseSilent(st) == IF st.online THEN [st EXCEPT !.online = FALSE] ELSE st

(* initEventWs, "close" *)
EventWsClose(st) ==
    IF st.online
    THEN Emit([st EXCEPT !.online = FALSE], "system.offline", "null")
    ELSE st

(* the "message" handlers attached to socket s, in the order attached *)
OnMessage(st, s, f) ==
    IF s = WsEvent
    THEN IF shared THEN ApiWsMessage(EventWsMessage(st, f), f) ELSE EventWsMessage(st, f)
    ELSE ApiWsMessage(st, f)

(* the "close" handlers attached to socket s *)
OnClose(st, s) == IF s = WsEvent THEN EventWsClose(st) ELSE st

----------------------------------------------------------------------------
(* State records: an operation is computed on a record of the mutable
   fields and committed at the end of the step. *)

Cur ==
    [online |-> online, gl |-> gl, fl |-> fl, ver |-> oneBotVersion,
     calls |-> calls, apiMap |-> apiMap, timers |-> timers,
     eventMap |-> eventMap, fired |-> fired, ft |-> fetchTimeout, eff |-> << >>]

Commit(st) ==
    /\ online' = st.online
    /\ gl' = st.gl
    /\ fl' = st.fl
    /\ oneBotVersion' = st.ver
    /\ calls' = st.calls
    /\ apiMap' = st.apiMap
    /\ timers' = st.timers
    /\ eventMap' = st.eventMap
    /\ fired' = st.fired

(* whether a timer has run its delay *)
IsDue(t) == t.left = 0

Sockets == IF shared THEN {"ev"} ELSE {"ev", "api"}

UserActions == {"send_msg"}

----------------------------------------------------------------------------
(* Initial state: the fields as the constructor leaves them *)

Init ==
    /\ eventTarget = "a"
    /\ apiTarget \in InitTargets
    /\ shared = ~NeedApiConnectOf(eventTarget, apiTarget)
    /\ fetchTimeout \in Timeouts
    /\ online = FALSE
    /\ gl = EmptyDir
    /\ fl = EmptyDir
    /\ oneBotVersion = 0
    /\ sock = [s \in {"ev", "api"} |-> "closed"]
    /\ calls = << >>
    /\ apiMap = << >>
    /\ timers = << >>
    /\ pollers = 0
    /\ eventMap = << >>
    /\ fired = << >>

----------------------------------------------------------------------------
(* Operations of the public surface *)

(* a setter that also re-arms the timers that are running *)
DoSetFetchTimeoutRearm(t) ==
    /\ t # fetchTimeout
    /\ fetchTimeout' = t
    /\ timers' = [c \in DOMAIN timers |-> [timers[c] EXCEPT !.left = t]]
    /\ UNCHANGED << eventTarget, apiTarget, shared, online, gl, fl, oneBotVersion,
                    sock, calls, apiMap, pollers, eventMap, fired >>

DoSetFetchTimeout(t) ==
    /\ t # fetchTimeout
    /\ fetchTimeout' = t
    /\ UNCHANGED << eventTarget, apiTarget, shared, online, gl, fl, oneBotVersion,
                    sock, calls, apiMap, timers, pollers, eventMap, fired >>

DoSetTarget(et, at) ==
    /\ << et, at >> # << eventTarget, apiTarget >>
    /\ eventTarget' = et
    /\ apiTarget' = at
    /\ UNCHANGED << shared, fetchTimeout, online, gl, fl, oneBotVersion,
                    sock, calls, apiMap, timers, pollers, eventMap, fired >>

(* connect(): the sockets it starts *)
ConnectSockets(sk) ==
    LET sk1 == WsConnect(sk, WsEvent)
    IN  IF NeedApiConnect THEN WsConnect(sk1, WsApi) ELSE sk1

(* closeConnect(): the sockets it closes *)
CloseTargets == IF NeedApiConnect THEN << WsEvent, WsApi >> ELSE << WsEvent >>

RECURSIVE CloseAll(_, _, _)
CloseAll(st, sk, targets) ==
    IF targets = << >> THEN [st |-> st, sk |-> sk]
    ELSE LET s == Head(targets)
         IN  IF sk[s] = "closed"
             THEN CloseAll(st, sk, Tail(targets))
             ELSE CloseAll(OnClose(st, s), WsClose(sk, s), Tail(targets))

DoConnect ==
    /\ pollers < MaxConnects
    /\ sock' = ConnectSockets(sock)
    /\ pollers' = pollers + 1
    /\ UNCHANGED << eventTarget, apiTarget, shared, fetchTimeout, online, gl, fl,
                    oneBotVersion, calls, apiMap, timers, eventMap, fired >>

DoCloseConnect ==
    LET r == CloseAll(Cur, sock, CloseTargets)
    IN  /\ \E i \in 1..Len(CloseTargets) : sock[CloseTargets[i]] # "closed"
        /\ sock' = r.sk
        /\ Commit(r.st)
        /\ UNCHANGED << eventTarget, apiTarget, shared, fetchTimeout, pollers >>

DoReConnect ==
    LET r == CloseAll(Cur, sock, CloseTargets)
    IN  /\ pollers < MaxConnects
        /\ sock' = ConnectSockets(r.sk)
        /\ pollers' = pollers + 1
        /\ Commit(r.st)
        /\ UNCHANGED << eventTarget, apiTarget, shared, fetchTimeout >>

(* one tick of the interval timer of a connect() *)
PollTick ==
    /\ pollers > 0
    /\ IsReady(sock)
    /\ pollers' = pollers - 1
    /\ UNCHANGED << eventTarget, apiTarget, shared, fetchTimeout, online, gl, fl,
                    oneBotVersion, sock, calls, apiMap, timers, eventMap, fired >>

DoFetchApi(action) ==
    /\ Slots(Cur) < MaxCalls
    /\ Commit(FetchApi(Cur, action))
    /\ UNCHANGED << eventTarget, apiTarget, shared, fetchTimeout, sock, pollers >>

DoSetGroupList ==
    /\ Slots(Cur) < MaxCalls
    /\ Commit(SetGroupList(Cur))
    /\ UNCHANGED << eventTarget, apiTarget, shared, fetchTimeout, sock, pollers >>

DoSetFriendList ==
    /\ Slots(Cur) < MaxCalls
    /\ Commit(SetFriendList(Cur))
    /\ UNCHANGED << eventTarget, apiTarget, shared, fetchTimeout, sock, pollers >>

----------------------------------------------------------------------------
(* Events of the environment *)

SocketOpen(s) ==
    /\ sock[s] = "connecting"
    /\ sock' = [sock EXCEPT ![s] = "open"]
    /\ UNCHANGED << eventTarget, apiTarget, shared, fetchTimeout, online, gl, fl,
                    oneBotVersion, calls, apiMap, timers, pollers, eventMap, fired >>

(* the peer or the network closes socket s *)
SocketClose(s) ==
    /\ sock[s] # "closed"
    /\ sock' = WsClose(sock, s)
    /\ Commit(OnClose(Cur, s))
    /\ UNCHANGED << eventTarget, apiTarget, shared, fetchTimeout, pollers >>

(* a text frame arrives on socket s *)
Message(s, f) ==
    LET st == OnMessage(Cur, s, f)
    IN  /\ IsOpen(sock, s)
        /\ Slots(st) <= MaxCalls
        /\ Commit(st)
        /\ UNCHANGED << eventTarget, apiTarget, shared, fetchTimeout, sock, pollers >>

(* the timeout timer of call c fires *)
TimerFire(c) ==
    /\ c \in DOMAIN timers
    /\ IsDue(timers[c])
    /\ Commit(FireTimer(Cur, c))
    /\ UNCHANGED << eventTarget, apiTarget, shared, fetchTimeout, sock, pollers >>

(* time passes: one unit, not beyond the deadline of a live timer *)
Tick ==
    /\ DOMAIN timers # {}
    /\ \A c \in DOMAIN timers : ~IsDue(timers[c])
    /\ timers' = [c \in DOMAIN timers |-> [timers[c] EXCEPT !.left = @ - 1]]
    /\ UNCHANGED << eventTarget, apiTarget, shared, fetchTimeout, online, gl, fl,
                    oneBotVersion, sock, calls, apiMap, pollers, eventMap, fired >>

Next ==
    \/ \E t \in Timeouts : DoSetFetchTimeout(t)
    \/ \E et \in Targets, at \in ApiTargets : DoSetTarget(et, at)
    \/ DoConnect
    \/ DoCloseConnect
    \/ DoReConnect
    \/ PollTick
    \/ \E a \in UserActions : DoFetchApi(a)
    \/ DoSetGroupList
    \/ DoSetFriendList
    \/ \E s \in Sockets : SocketOpen(s)
    \/ \E s \in Sockets : SocketClose(s)
    \/ \E s \in Sockets, f \in Frames : Message(s, f)
    \/ \E c \in Echoes : TimerFire(c)
    \/ Tick

Spec == Init /\ [][Next]_vars

----------------------------------------------------------------------------
(* The client once connect() has completed: every socket it owns is open
   and no readiness poll is left.  The state is reached from Init by
   DoConnect, SocketOpen for each socket, PollTick. *)
InitConnected ==
    /\ eventTarget = "a"
    /\ apiTarget \in InitTargets
    /\ shared = ~NeedApiConnectOf(eventTarget, apiTarget)
    /\ fetchTimeout \in Timeouts
    /\ online = FALSE
    /\ gl = EmptyDir
    /\ fl = EmptyDir
    /\ oneBotVersion = 0
    /\ sock = [s \in {"ev", "api"} |-> IF s = "ev" \/ ~shared THEN "open" ELSE "closed"]
    /\ calls = << >>
    /\ apiMap = << >>
    /\ timers = << >>
    /\ pollers = 0
    /\ eventMap = << >>
    /\ fired = << >>

(* The request correlator at work on a connected client *)
NextFetch ==
    \/ \E t \in Timeouts : DoSetFetchTimeout(t)
    \/ \E a \in UserActions : DoFetchApi(a)
    \/ DoSetGroupList
    \/ DoSetFriendList
    \/ DoCloseConnect
    \/ \E s \in Sockets : SocketClose(s)
    \/ \E s \in Sockets, f \in Frames : Message(s, f)
    \/ \E c \in Echoes : TimerFire(c)
    \/ Tick

SpecFetch == InitConnected /\ [][NextFetch]_vars

(* Timers eventually fire: while a timer is live the clock does not stop;
   it advances, or runs the callback of a timer that is due. *)
TimersFire == WF_vars(Tick \/ \E c \in Echoes : TimerFire(c))

(* The calls of a connected client and everything that can happen to them
   afterwards, with timers that fire *)
NextLive ==
    \/ \E a \in UserActions : DoFetchApi(a)
    \/ DoCloseConnect
    \/ \E s \in Sockets : SocketClose(s)
    \/ \E s \in Sockets, f \in Frames : Message(s, f)
    \/ \E c \in Echoes : TimerFire(c)
    \/ Tick

InitLive == InitConnected /\ fetchTimeout = 2

LiveFetch == InitLive /\ [][NextLive]_vars /\ TimersFire

----------------------------------------------------------------------------
(* The connection lifecycle: the client from construction on, its sockets
   opened, closed and retargeted while heartbeats arrive *)
NextConn ==
    \/ \E et \in Targets, at \in ApiTargets : DoSetTarget(et, at)
    \/ DoConnect
    \/ DoCloseConnect
    \/ DoReConnect
    \/ PollTick
    \/ \E s \in Sockets : SocketOpen(s)
    \/ \E s \in Sockets : SocketClose(s)
    \/ \E s \in Sockets, f \in EventFrames : Message(s, f)
    \/ \E c \in Echoes : TimerFire(c)
    \/ Tick

SpecConn == Init /\ [][NextConn]_vars

----------------------------------------------------------------------------
(* The listener registry driven through its public surface *)

DoOn(event, listener) ==
    /\ Len(fired) < MaxRegs
    /\ eventMap' = OnHandle(eventMap, event, listener, FALSE, Len(fired) + 1)
    /\ fired' = Append(fired, [once |-> FALSE, n |-> 0])
    /\ UNCHANGED clientVars

DoOnce(event, listener) ==
    /\ Len(fired) < MaxRegs
    /\ eventMap' = OnHandle(eventMap, event, listener, TRUE, Len(fired) + 1)
    /\ fired' = Append(fired, [once |-> TRUE, n |-> 0])
    /\ UNCHANGED clientVars

DoOff(event, listener) ==
    /\ eventMap' = Off(eventMap, event, listener)
    /\ eventMap' # eventMap
    /\ UNCHANGED << fired, clientVars >>

DoEmit(event) ==
    /\ \A i \in 1..Len(fired) : fired[i].n < MaxEmits
    /\ Commit(Emit(Cur, event, "data"))
    /\ UNCHANGED << eventTarget, apiTarget, shared, fetchTimeout, sock, pollers >>

NextEmitter ==
    \/ \E e \in Events, l \in Listeners : DoOn(e, l)
    \/ \E e \in Events, l \in Listeners : DoOnce(e, l)
    \/ \E e \in Events, l \in Listeners : DoOff(e, l)
    \/ \E e \in Events : DoEmit(e)

SpecEmitter == Init /\ [][NextEmitter]_vars

----------------------------------------------------------------------------
(* The dispatcher: event frames of every class arrive on a connected client
   that has listeners on the generic message event *)

(* a frame arrives while the listeners' invocation counts are below the cap *)
Deliver(s, f) ==
    /\ \A i \in 1..Len(fired) : fired[i].n < MaxEmits
    /\ Message(s, f)

NextDispatch ==
    \/ DoOn("message", "f")
    \/ \E s \in Sockets, f \in PostFrames \cup EventFrames : Deliver(s, f)
    \/ \E c \in Echoes : TimerFire(c)
    \/ Tick

InitDispatch == InitConnected /\ fetchTimeout = 1

SpecDispatch == InitDispatch /\ [][NextDispatch]_vars

----------------------------------------------------------------------------
(* Pending requests against everything that is not their response or their
   timer: the client from construction on, connected, retargeted,
   reconfigured, closed and reconnected while calls are pending *)
NextPending ==
    \/ \E t \in Timeouts : DoSetFetchTimeout(t)
    \/ \E at \in ApiTargets : DoSetTarget(eventTarget, at)
    \/ DoConnect
    \/ DoCloseConnect
    \/ DoReConnect
    \/ PollTick
    \/ \E s \in Sockets : SocketOpen(s)
    \/ \E s \in Sockets : SocketClose(s)
    \/ \E s \in Sockets, f \in Frames : Message(s, f)
    \/ \E c \in Echoes : TimerFire(c)
    \/ Tick

SpecPending == Init /\ [][NextPending]_vars

----------------------------------------------------------------------------
(* The correlation table driven directly, as a subclass may drive it:
   resolvers of calls registered under any identifier, deliveries of
   responses and of synthesized timeouts for any identifier *)

RECURSIVE Registrations(_, _)
Registrations(am, keys) ==
    IF keys = {} THEN 0
    ELSE LET e == CHOOSE x \in keys : TRUE
         IN  Len(am[e]) + Registrations(am, keys \ {e})

(* onApi( event, resolver of call c ) *)
DoOnApi(event, c) ==
    /\ Registrations(apiMap, DOMAIN apiMap) < MaxRegs
    /\ apiMap' = OnApi(apiMap, event, c)
    /\ calls' = IF c \in DOMAIN calls THEN calls ELSE calls @@ (c :> [action |-> "send_msg"])
    /\ UNCHANGED << eventTarget, apiTarget, shared, fetchTimeout, online, gl, fl,
                    oneBotVersion, sock, timers, pollers, eventMap, fired >>

(* the data of a delivery for identifier event: a response or a timeout *)
Deliveries(event) ==
    {[data |-> Resp(0, "ok", d, "", event), by |-> "response"] : d \in Payloads}
        \cup {[data |-> TimeoutResp("send_msg", event), by |-> "timeout"]}

(* emitApi( event, data ) *)
DoEmitApi(event, d) ==
    /\ Commit(EmitApi(Cur, event, d.data, d.by))
    /\ UNCHANGED << eventTarget, apiTarget, shared, fetchTimeout, sock, pollers >>

NextApiMap ==
    \/ \E e \in Echoes, c \in Echoes : DoOnApi(e, c)
    \/ \E e \in Echoes : \E d \in Deliveries(e) : DoEmitApi(e, d)

SpecApiMap == Init /\ [][NextApiMap]_vars

----------------------------------------------------------------------------
(* The online flag observed by its subscribers: a client just constructed on
   which on( "system.online", f ) and on( "system.offline", g ) have been
   called, then connected, closed and reconnected while meta events arrive.
   Registration 1 counts the system.online publications, registration 2 the
   system.offline publications. *)
InitOnline ==
    /\ eventTarget = "a"
    /\ apiTarget \in InitTargets
    /\ shared = ~NeedApiConnectOf(eventTarget, apiTarget)
    /\ fetchTimeout = 1
    /\ online = FALSE
    /\ gl = EmptyDir
    /\ fl = EmptyDir
    /\ oneBotVersion = 0
    /\ sock = [s \in {"ev", "api"} |-> "closed"]
    /\ calls = << >>
    /\ apiMap = << >>
    /\ timers = << >>
    /\ pollers = 0
    /\ eventMap = OnHandle(OnHandle(<< >>, "system.online", "f", FALSE, 1),
                           "system.offline", "g", FALSE, 2)
    /\ fired = << [once |-> FALSE, n |-> 0], [once |-> FALSE, n |-> 0] >>

NextOnline ==
    \/ DoConnect
    \/ DoCloseConnect
    \/ DoReConnect
    \/ PollTick
    \/ \E s \in Sockets : SocketOpen(s)
    \/ \E s \in Sockets : SocketClose(s)
    \/ \E s \in Sockets, f \in EventFrames : Deliver(s, f)
    \/ \E c \in Echoes : TimerFire(c)
    \/ Tick

SpecOnline == InitOnline /\ [][NextOnline]_vars

----------------------------------------------------------------------------
(* The directories: a connected client whose directories are refreshed by
   setGroupList and setFriendList, by the online transition and by notices,
   online and offline, while responses of every kind arrive and timers fire *)
NextRefresh ==
    \/ DoSetGroupList
    \/ DoSetFriendList
    \/ \E s \in Sockets, f \in HeartbeatFrames \cup RefreshNotices \cup ListFrames : Message(s, f)
    \/ \E c \in Echoes : TimerFire(c)
    \/ Tick

InitRefresh == InitConnected /\ fetchTimeout = 1

SpecRefresh == InitRefresh /\ [][NextRefresh]_vars

(* the registrations that are in the array of an event, in array order *)
RECURSIVE Ids(_)
Ids(list) == IF list = << >> THEN << >> ELSE << Head(list).id >> \o Ids(Tail(list))

Registered(em) == UNION {{em[e][i].id : i \in 1..Len(em[e])} : e \in DOMAIN em}
----------------------------------------------------------------------------
(* C9: emit(event) invokes every listener that is registered for the event
   when emit is called, each exactly once and in registration order,
   whatever mix of on and once listeners the event has: an emit step raises
   the invocation count of every registration of the event by one, and the
   invocations it makes are the registrations in array order. *)
C9_EmitInvokesEveryListener ==
    [][\A e \in Events :
          DoEmit(e) =>
              /\ \A i \in 1..Len(fired) :
                    fired'[i].n = fired[i].n
                                  + (IF i \in Registered(eventMap) /\ e \in DOMAIN eventMap
                                        /\ \E k \in 1..Len(eventMap[e]) : eventMap[e][k].id = i
                                     THEN 1 ELSE 0)
              /\ Invoked(Emit(Cur, e, "data").eff) = Ids(ListenersOf(eventMap, e))]_vars

(* C10: a registration made with once is invoked at most once over any
   number of emits, and once it has been invoked it is the entry that has
   left the array, also when the same listener function is registered with
   on for the same event. *)
C10_OnceFiresOnce ==
    \A i \in 1..Len(fired) :
        fired[i].once =>
            /\ fired[i].n <= 1
            /\ fired[i].n = 1 => i \notin Registered(eventMap)
----------------------------------------------------------------------------
(* Traces *)

RECURSIVE Steps(_)
Steps(s) == IF s = << >> THEN << >> ELSE << << Head(s).k, Head(s).name >> >> \o Steps(Tail(s))

Resolved(st) == SelectEff(st.eff, "resolve")

(* every resolve of the trace is the first one of a promise that was
   pending in calls, and no promise is resolved twice in the trace *)
ResolvesOnce(st) ==
    LET r == Resolved(st)
    IN  /\ \A i \in 1..Len(r) : r[i].name # "settled" /\ r[i].n \in DOMAIN calls
        /\ \A i, j \in 1..Len(r) : r[i].n = r[j].n => i = j

(* the fields of a state record that are program state *)
Fields(st) == [st EXCEPT !.eff = << >>]

----------------------------------------------------------------------------
(* C1: every fetchApi call is resolved once.  A pending call holds exactly
   one resolver and one live timer and no settled call holds either, so
   that a response and a timeout cannot both reach it; whatever frame
   arrives and whichever timer fires, resolve is called on pending promises
   only and once each; a response frame whose identifier is not pending
   changes nothing. *)
C1_ResolvedOnce ==
    /\ \A c \in InUse(Cur) :
          c \in DOMAIN calls /\ c \in DOMAIN timers /\ c \in DOMAIN apiMap /\ apiMap[c] = << c >>
    /\ \A s \in Sockets, f \in Frames :
          /\ ResolvesOnce(OnMessage(Cur, s, f))
          /\ f.hasEcho /\ f.echo \notin DOMAIN calls => Fields(OnMessage(Cur, s, f)) = Cur
    /\ \A c \in DOMAIN timers : ResolvesOnce(FireTimer(Cur, c))

(* an identifier that was resolved while a later call is still pending, on
   a client that can still receive its late response *)
C1_Witness ==
    /\ IsOpen(sock, WsApi)
    /\ \E e \in Echoes, c \in DOMAIN calls : e < c /\ e \notin DOMAIN calls

(* C3: a fetchApi call made while the online flag is false resolves at once
   with the failed response 401 / "failed" / null, writes nothing to the API
   socket, adds no entry to the correlation table and starts no timer. *)
C3_OfflineCall ==
    ~online =>
        \A a \in UserActions \cup {"get_version_info", "get_group_list", "get_friend_list"} :
            LET st == FetchApi(Cur, a)
            IN  /\ Steps(st.eff) = << << "fetch", a >>, << "resolve", a >> >>
                /\ Resolved(st)[1].val = Resp(401, "failed", 0, "Not_Login", Resolved(st)[1].n)
                /\ st.apiMap = apiMap
                /\ st.timers = timers
                /\ st.calls = calls

(* offline with a loaded group directory and calls still pending: the
   refresh made now is rejected and leaves tables and timers alone *)
C3_Witness ==
    /\ ~online
    /\ gl = MapOf(Rows(1))
    /\ calls # << >>
    /\ SetGroupList(Cur).gl = EmptyDir
    /\ SetGroupList(Cur).timers = timers

(* what the delivery of frame f on the API channel does to pending call c:
   the call resolves with exactly that frame, its timer is cancelled and its
   entry is removed *)
DeliveredTo(c, f) ==
    LET st == OnMessage(Cur, WsApi, f)
    IN  /\ Len(Resolved(st)) = 1
        /\ Resolved(st)[1].n = c
        /\ Resolved(st)[1].val = Resp(f.retcode, IF f.retcode = 0 THEN "ok" ELSE "failed", f.data, "", c)
        /\ c \notin DOMAIN st.timers
        /\ c \notin DOMAIN st.calls
        /\ c \notin DOMAIN st.apiMap

(* C4, as claimed: every response frame that carries the identifier of a
   pending call resolves the call with that frame, cancels its timer and
   removes its entry, whatever the return code of the frame. *)
C4_AnyReturnCode ==
    \A c \in DOMAIN calls, f \in RespFrames : f.echo = c => DeliveredTo(c, f)

(* C4, amended: the same for every matching response frame whose return
   code is not 1; a matching frame with return code 1 is dropped and leaves
   the call pending with its timer running. *)
C4_ResponseFirst ==
    \A c \in DOMAIN calls, f \in RespFrames :
        f.echo = c =>
            IF f.retcode = 1
            THEN OnMessage(Cur, WsApi, f) = Cur
            ELSE DeliveredTo(c, f)

(* a pending group-list refresh whose response loads the directory *)
C4_Witness ==
    \E c \in DOMAIN calls :
        /\ IsOpen(sock, WsApi)
        /\ calls[c].action = "get_group_list"
        /\ gl = EmptyDir
        /\ timers[c].left > 0
        /\ OnMessage(Cur, WsApi, RespFrame(c, 0, 1)).gl = MapOf(Rows(1))
        /\ DeliveredTo(c, RespFrame(c, 0, 1))

(* C5: the timer of a call is armed with the timeout configured when the
   call is made and runs down with time only; when it fires, the call
   resolves with the failed response 408 / "failed" / null whose message
   names the action of the call, and the pending entry is removed. *)
C5_Timeout ==
    /\ [](\A c \in DOMAIN timers :
            LET st == FireTimer(Cur, c)
            IN  /\ c \in DOMAIN calls
                /\ Len(Resolved(st)) = 1
                /\ Resolved(st)[1].n = c
                /\ Resolved(st)[1].val =
                      Resp(408, "failed", 0, "Action " \o calls[c].action \o " Request_Timeout", c)
                /\ c \notin DOMAIN st.calls
                /\ c \notin DOMAIN st.apiMap
                /\ c \notin DOMAIN st.timers)
    /\ [][\A c \in DOMAIN timers' :
            IF c \in DOMAIN timers
            THEN timers'[c].left \in {timers[c].left, timers[c].left - 1}
            ELSE timers'[c].left = fetchTimeout]_vars

(* a friend-list refresh that ran out of time on a client with a loaded
   friend directory: the timer is due and firing it empties the directory *)
C5_Witness ==
    \E c \in DOMAIN timers :
        /\ IsDue(timers[c])
        /\ calls[c].action = "get_friend_list"
        /\ fl = MapOf(Rows(1))
        /\ FireTimer(Cur, c).fl = EmptyDir
----------------------------------------------------------------------------
(* C2: every fetchApi call eventually resolves, whatever happens after it:
   a call that is pending does not stay pending forever. *)
C2_EventuallyResolved ==
    \A c \in Echoes : (c \in DOMAIN calls) ~> (c \notin DOMAIN calls)

(* a pending call on a client that went offline and whose API socket is
   closed: no response can arrive any more *)
C2_Witness ==
    /\ ~online
    /\ sock[WsApi] = "closed"
    /\ calls # << >>
----------------------------------------------------------------------------
(* the refresh requests of an online transition, then the publications *)
OnlineTransitionSteps ==
    << << "fetch", "get_version_info" >>, << "send", "get_version_info" >>,
       << "fetch", "get_group_list" >>, << "send", "get_group_list" >>,
       << "fetch", "get_friend_list" >>, << "send", "get_friend_list" >>,
       << "emit", "system.online" >>, << "emit", "system" >> >>

RECURSIVE Count(_, _)
Count(s, x) == IF s = << >> THEN 0 ELSE (IF Head(s) = x THEN 1 ELSE 0) + Count(Tail(s), x)

(* C6: a heartbeat with online=true on an offline client sets the flag,
   issues the three refresh requests and leaves them pending, then publishes
   system.online once; on a client that is online already it publishes no
   system.online, issues no request and changes nothing.  Every heartbeat
   publishes system exactly once, as its last publication. *)
C6_HeartbeatTransition ==
    LET up == OnMessage(Cur, WsEvent, MetaFrame("heartbeat", TRUE))
    IN  /\ ~online =>
              /\ up.online
              /\ Steps(up.eff) = OnlineTransitionSteps
              /\ Cardinality(DOMAIN up.calls \ DOMAIN calls) = 3
              /\ DOMAIN up.calls \ DOMAIN calls = DOMAIN up.timers \ DOMAIN timers
              /\ << up.gl, up.fl, up.ver >> = << gl, fl, oneBotVersion >>
        /\ online =>
              /\ Fields(up) = Cur
              /\ Steps(up.eff) = << << "emit", "system" >> >>
        /\ \A on \in BOOLEAN :
              LET pub == Published(OnMessage(Cur, WsEvent, MetaFrame("heartbeat", on)).eff)
              IN  /\ Count(pub, "system") = 1
                  /\ pub[Len(pub)] = "system"
                  /\ Count(pub, "system.online") = (IF on /\ ~online THEN 1 ELSE 0)

(* just after the transition: online, the three refreshes pending, nothing
   loaded yet, the socket still open for the next heartbeat *)
C6_Witness ==
    /\ online
    /\ IsOpen(sock, WsEvent)
    /\ {calls[c].action : c \in DOMAIN calls} =
          {"get_version_info", "get_group_list", "get_friend_list"}
    /\ << gl, fl, oneBotVersion >> = << EmptyDir, EmptyDir, 0 >>

(* C7: whenever a socket of the client closes while the online flag is true,
   the event socket or the separate API socket, the flag becomes false and
   system.offline is published once with no payload; with the flag false
   nothing is published; the client opens no connection by itself. *)
C7_CloseGoesOffline ==
    [][\A s \in Sockets :
          sock[s] = "open" /\ SocketClose(s) =>
              LET pub == SelectEff(OnClose(Cur, s).eff, "emit")
              IN  /\ IF online
                     THEN /\ ~online'
                          /\ Names(pub) = << "system.offline" >>
                          /\ pub[1].arg = "null"
                     ELSE /\ ~online'
                          /\ pub = << >>
                  /\ \A t \in {"ev", "api"} : sock'[t] = "connecting" => sock[t] = "connecting"
                  /\ pollers' = pollers]_vars

(* C8: connect() completes only in a state where every required socket is
   open: the event socket, and the API socket when the endpoints differ. *)
C8_ConnectWaitsForSockets ==
    [][pollers' < pollers =>
          /\ sock[WsEvent] = "open"
          /\ NeedApiConnect => sock[WsApi] = "open"
          /\ sock' = sock]_vars

(* a dual-connection client whose connect() has completed *)
C8_Witness ==
    /\ ~shared
    /\ NeedApiConnect
    /\ pollers = 0
    /\ sock["ev"] = "open"
    /\ sock["api"] = "open"
----------------------------------------------------------------------------
(* what handling frame f on the event socket publishes, and to whom *)
Emitted(f) == SelectEff(OnMessage(Cur, WsEvent, f).eff, "emit")
Delivered(f) == SelectEff(OnMessage(Cur, WsEvent, f).eff, "invoke")
Refreshes(f) == Names(SelectEff(OnMessage(Cur, WsEvent, f).eff, "fetch"))

(* the publications the four message sub-types call for *)
MessageEvents(subType) ==
    CASE subType = "friend" -> << "message.private.friend", "message.private", "message" >>
      [] subType = "group" -> << "message.private.group", "message.private", "message" >>
      [] subType = "normal" -> << "message.group.normal", "message.group", "message" >>
      [] subType = "anonymous" -> << "message.group.anonymous", "message.group", "message" >>
      [] OTHER -> << >>

(* the event objects that carry the closures of a message sub-type *)
MessageObjects(subType) ==
    CASE subType \in {"friend", "group"} -> {"frame+reply", "frame+atMe+reply"}
      [] subType \in {"normal", "anonymous"} ->
            {"frame+reply+recall+kick+ban", "frame+atMe+reply+recall+kick+ban"}
      [] OTHER -> {}

(* frame f publishes the three events of its sub-type in order and nothing
   else, and every publication and every delivery carries the closures *)
PublishesInOrder(f) ==
    /\ Names(Emitted(f)) = MessageEvents(f.sub_type)
    /\ \A i \in 1..Len(Emitted(f)) : Emitted(f)[i].arg \in MessageObjects(f.sub_type)
    /\ \A i \in 1..Len(Delivered(f)) : Delivered(f)[i].arg \in MessageObjects(f.sub_type)
    /\ Refreshes(f) = << >>

(* C11, as claimed: every inbound message frame publishes the specific
   sub-type event, then the class generic, then the global generic and
   nothing else, each delivery carrying the reply closure. *)
C11_EveryMessageFrame ==
    \A f \in MessageFrames : PublishesInOrder(f)

(* C11, amended: the same for every message frame whose sub-type is friend,
   group, normal or anonymous; a message frame of any other sub-type
   publishes the global generic message only, with no closure attached. *)
C11_MessageOrder ==
    \A f \in MessageFrames :
        IF f.sub_type \in {"friend", "group", "normal", "anonymous"}
        THEN PublishesInOrder(f)
        ELSE /\ Names(Emitted(f)) = << "message" >>
             /\ Emitted(f)[1].arg \in {"frame", "frame+atMe"}
             /\ \A i \in 1..Len(Delivered(f)) : Delivered(f)[i].arg \in {"frame", "frame+atMe"}
             /\ Refreshes(f) = << >>

(* a listener of message that has been invoked and is invoked again by a
   group message that mentions the client *)
C11_Witness ==
    /\ \E i \in 1..Len(fired) : fired[i].n > 0
    /\ Len(Delivered(MessageFrame("normal", uin))) > 0
    /\ Delivered(MessageFrame("normal", uin))[1].arg = "frame+atMe+reply+recall+kick+ban"
----------------------------------------------------------------------------
(* C12: a group_increase notice whose user id is the client's own identity
   publishes notice.group.increase twice and notice.group.member_increase
   never and issues one group-directory refresh; with any other user id it
   publishes each of the two events once and issues no refresh. *)
C12_GroupIncrease ==
    \A u \in UserIds :
        LET f == NoticeFrame("group_increase", "", u)
            names == Names(Emitted(f))
        IN  IF u = uin
            THEN /\ Count(names, "notice.group.increase") = 2
                 /\ Count(names, "notice.group.member_increase") = 0
                 /\ Refreshes(f) = << "get_group_list" >>
            ELSE /\ Count(names, "notice.group.increase") = 1
                 /\ Count(names, "notice.group.member_increase") = 1
                 /\ Refreshes(f) = << >>

(* online with nothing but group-directory refreshes pending, as after a
   self-join notice, and the next self-join refreshes again *)
C12_Witness ==
    /\ online
    /\ calls # << >>
    /\ \A c \in DOMAIN calls : calls[c].action = "get_group_list"
    /\ Names(Emitted(NoticeFrame("group_increase", "", uin))) =
          << "notice.group.increase", "notice.group.increase", "notice.group", "notice" >>
----------------------------------------------------------------------------
(* C13: closeConnect() tears down both sockets whatever the endpoints are:
   after it no socket of the client is open, also when setTarget has
   changed whether the two endpoints are equal; reConnect() closes before
   it connects, so that after it the event socket is connecting anew and
   no socket is left open from before. *)
C13_CloseTearsDownBoth ==
    [][/\ DoCloseConnect => \A s \in Sockets : sock'[s] # "open"
       /\ DoReConnect => /\ sock'[WsEvent] = "connecting"
                         /\ \A s \in Sockets : sock'[s] # "open"]_vars
----------------------------------------------------------------------------
(* C14: connect() is idempotent and leaks no timer: whatever connect(),
   reConnect() and closeConnect() calls have been made, at most one
   readiness-poll timer is live. *)
C14_OnePollTimer == pollers <= 1
----------------------------------------------------------------------------
(* C15: setFetchTimeout changes the window of later calls only: the step
   that changes the configured timeout leaves every pending call, its table
   entry and its running timer as they are, and a timer started afterwards
   is armed with the new value. *)
C15_SetFetchTimeout ==
    [][/\ fetchTimeout' # fetchTimeout =>
             /\ timers' = timers
             /\ calls' = calls
             /\ apiMap' = apiMap
       /\ \A c \in DOMAIN timers' \ DOMAIN timers : timers'[c].left = fetchTimeout]_vars

(* a call sent under the longer window, still pending with its full window
   to run after the timeout has been set to the shorter one *)
C15_Witness ==
    \E c \in DOMAIN timers :
        /\ c \in DOMAIN calls
        /\ timers[c].left > fetchTimeout
----------------------------------------------------------------------------
(* C16: off(event, listener) removes exactly the first entry of the event's
   array whose listener is the argument: the entries before it and after it,
   later entries with the same listener included, keep their order, the
   arrays of other events are untouched, and off changes nothing when no
   entry matches. *)
C16_OffRemovesFirst ==
    \A e \in Events, l \in Listeners :
        LET before == ListenersOf(eventMap, e)
            after == ListenersOf(Off(eventMap, e, l), e)
            matches == {i \in 1..Len(before) : before[i].listener = l}
        IN  /\ DOMAIN Off(eventMap, e, l) = DOMAIN eventMap
            /\ \A d \in DOMAIN eventMap \ {e} : Off(eventMap, e, l)[d] = eventMap[d]
            /\ IF matches = {}
               THEN Off(eventMap, e, l) = eventMap
               ELSE \E k \in matches :
                       /\ \A j \in matches : k <= j
                       /\ Len(after) = Len(before) - 1
                       /\ \A i \in 1..(k - 1) : after[i] = before[i]
                       /\ \A i \in k..Len(after) : after[i] = before[i + 1]

(* an event with two entries of one listener left after an off has removed
   a registration, no listener having been invoked *)
C16_Witness ==
    /\ \A i \in 1..Len(fired) : fired[i].n = 0
    /\ Cardinality(Registered(eventMap)) < Len(fired)
    /\ \E e \in DOMAIN eventMap : \E i, j \in 1..Len(eventMap[e]) :
          i < j /\ eventMap[e][i].listener = eventMap[e][j].listener
----------------------------------------------------------------------------
(* the two paths a frame can take on the socket of a single-connection
   client: delivery to the correlator, classification by the dispatcher *)
Correlated(f) == SelectEff(OnMessage(Cur, WsEvent, f).eff, "emitApi") # << >>
Dispatched(f) == SelectEff(OnMessage(Cur, WsEvent, f).eff, "emit") # << >>

(* C17: on a single-connection client every well-formed frame takes exactly
   one of the two paths: a frame that has an echo field, whatever the field
   holds, goes to the correlator only and publishes nothing (a frame with
   return code 1 is let go by the correlator path itself); a frame without
   the field is dispatched only and resolves no pending request. *)
C17_ExactlyOnePath ==
    shared /\ IsOpen(sock, WsEvent) =>
        \A f \in RespFrames \cup EventFrames \cup PostFrames :
            IF f.hasEcho
            THEN /\ ~Dispatched(f)
                 /\ f.retcode # RetAsync => Correlated(f)
            ELSE /\ Dispatched(f)
                 /\ ~Correlated(f)
                 /\ \A i \in 1..Len(Resolved(OnMessage(Cur, WsEvent, f))) :
                       Resolved(OnMessage(Cur, WsEvent, f))[i].n \notin DOMAIN calls
----------------------------------------------------------------------------
(* the steps that are neither a response nor a timer: an offline
   transition by heartbeat or by socket close, closeConnect(), reConnect(),
   setTarget(), setFetchTimeout() *)
NoCancelStep ==
    \/ \E s \in Sockets : Message(s, MetaFrame("heartbeat", FALSE))
    \/ \E s \in Sockets : SocketClose(s)
    \/ DoCloseConnect
    \/ DoReConnect
    \/ \E at \in ApiTargets : DoSetTarget(eventTarget, at)
    \/ \E t \in Timeouts : DoSetFetchTimeout(t)

(* C18: there is no cancel-in-flight.  An entry leaves the correlation
   table only in the step that delivers a response frame with its
   identifier or in the step in which its own timer fires; an offline
   transition, closeConnect(), reConnect(), setTarget() and
   setFetchTimeout() leave every pending entry and every timer as it is. *)
C18_NoCancelInFlight ==
    [][/\ \A c \in DOMAIN apiMap :
             c \notin DOMAIN apiMap' =>
                 \/ TimerFire(c)
                 \/ \E s \in Sockets, f \in RespFrames : f.echo = c /\ Message(s, f)
       /\ NoCancelStep =>
             /\ apiMap' = apiMap
             /\ timers' = timers
             /\ calls' = calls]_vars

(* the three refreshes of an online transition still pending, each with its
   resolver and its timer, after the client went offline and every socket
   it owns was closed *)
C18_Witness ==
    /\ ~online
    /\ \A s \in Sockets : sock[s] = "closed"
    /\ Cardinality(DOMAIN calls) = 3
    /\ DOMAIN apiMap = DOMAIN calls
    /\ DOMAIN timers = DOMAIN calls
----------------------------------------------------------------------------
(* C19: onApi appends the resolver to the entry of its identifier and keeps
   the earlier ones; emitApi(id, data) invokes every resolver registered
   for id once, in registration order, with the same data, be it a response
   or a synthesized timeout, then removes the whole entry, so that a later
   delivery for id invokes nothing; the entries of other identifiers are
   unchanged by both. *)
C19_CorrelationTable ==
    /\ \A e \in Echoes, c \in Echoes :
          LET am == OnApi(apiMap, e, c)
          IN  /\ DOMAIN am = DOMAIN apiMap \cup {e}
              /\ am[e] = Append(IF e \in DOMAIN apiMap THEN apiMap[e] ELSE << >>, c)
              /\ \A x \in DOMAIN apiMap \ {e} : am[x] = apiMap[x]
    /\ \A e \in Echoes : \A d \in Deliveries(e) :
          LET st == EmitApi(Cur, e, d.data, d.by)
          IN  /\ Nums(Resolved(st)) = (IF e \in DOMAIN apiMap THEN apiMap[e] ELSE << >>)
              /\ \A i \in 1..Len(Resolved(st)) : Resolved(st)[i].val = d.data
              /\ DOMAIN st.apiMap = DOMAIN apiMap \ {e}
              /\ \A x \in DOMAIN apiMap \ {e} : st.apiMap[x] = apiMap[x]
              /\ Resolved(EmitApi([st EXCEPT !.eff = << >>], e, d.data, d.by)) = << >>

(* an identifier with two resolvers next to the entry of another one, a
   call having been resolved by an earlier delivery *)
C19_Witness ==
    /\ \E e \in DOMAIN apiMap : Len(apiMap[e]) = 2 /\ DOMAIN apiMap # {e}
    /\ \E c \in Echoes : c \notin DOMAIN calls
    /\ calls # << >>
----------------------------------------------------------------------------
(* C20: every notice frame publishes notice exactly once, as its last
   publication; it publishes notice.group exactly once, after its specific
   events, exactly when its notice kind is neither friend_add nor
   friend_recall; a friend_add notice issues one friend-directory refresh
   before it publishes notice.friend.add. *)
C20_NoticeGenerics ==
    \A f \in NoticeFrames :
        LET names == Names(Emitted(f))
            steps == Steps(OnMessage(Cur, WsEvent, f).eff)
            group == f.notice_type \notin {"friend_add", "friend_recall"}
        IN  /\ Count(names, "notice") = 1
            /\ names[Len(names)] = "notice"
            /\ Count(names, "notice.group") = (IF group THEN 1 ELSE 0)
            /\ group => names[Len(names) - 1] = "notice.group"
            /\ f.notice_type = "friend_add" =>
                  /\ Refreshes(f) = << "get_friend_list" >>
                  /\ steps[1] = << "fetch", "get_friend_list" >>
                  /\ names = << "notice.friend.add", "notice" >>

(* online with nothing but friend-directory refreshes pending, as after a
   friend_add notice *)
C20_Witness ==
    /\ online
    /\ calls # << >>
    /\ \A c \in DOMAIN calls : calls[c].action = "get_friend_list"
    /\ Names(Emitted(NoticeFrame("friend_add", "", uin + 1))) = << "notice.friend.add", "notice" >>
----------------------------------------------------------------------------
(* the transition publications of a trace, in order *)
IsTransition(name) == name \in {"system.online", "system.offline"}
Transitions(st) == SelectSeq(Published(st.eff), IsTransition)

(* the transition publication a handler owes for the flag it leaves *)
TransitionsOwed(st) ==
    IF st.online = online THEN << >>
    ELSE IF st.online THEN << "system.online" >> ELSE << "system.offline" >>

(* system.online and system.offline publications so far, as counted by the
   two listeners registered at the start *)
OnlinePublications == fired[1].n
OfflinePublications == fired[2].n

(* C21: over any sequence of heartbeat frames and socket close events the
   publications system.online and system.offline strictly alternate,
   starting with system.online, and the online flag is true exactly when
   the most recent of them was system.online: a handler publishes one
   transition event exactly when it changes the flag, the one that names
   the new value; no step publishes two; the count of system.online
   publications is that of system.offline or one more, and one more
   exactly when the flag is true. *)
C21_OnlineAlternates ==
    /\ [](/\ online \in BOOLEAN
          /\ OnlinePublications - OfflinePublications \in {0, 1}
          /\ online <=> OnlinePublications - OfflinePublications = 1
          /\ \A s \in Sockets :
                /\ Transitions(OnClose(Cur, s)) = TransitionsOwed(OnClose(Cur, s))
                /\ \A f \in EventFrames :
                      Transitions(OnMessage(Cur, s, f)) = TransitionsOwed(OnMessage(Cur, s, f))
          /\ Transitions(CloseAll(Cur, sock, CloseTargets).st)
                = TransitionsOwed(CloseAll(Cur, sock, CloseTargets).st))
    /\ [][(OnlinePublications' + OfflinePublications')
            - (OnlinePublications + OfflinePublications) \in {0, 1}]_vars

(* online, offline, online, offline have been published, the last one for
   a socket that closed *)
C21_Witness ==
    /\ ~online
    /\ OnlinePublications = 2
    /\ OfflinePublications = 2
    /\ sock[WsEvent] = "closed"
----------------------------------------------------------------------------
(* the directory a refresh action writes *)
RefreshActions == {"get_group_list", "get_friend_list"}
DirOf(st, action) == IF action = "get_group_list" THEN st.gl ELSE st.fl
OtherDirOf(st, action) == IF action = "get_group_list" THEN st.fl ELSE st.gl

(* the refresh requests that are pending *)
PendingRefreshes == {c \in DOMAIN calls : calls[c].action \in RefreshActions}

(* dir holds the entries of the array rows and nothing else: its keys are
   the ids of the rows, and under an id it has the last row with that id *)
HoldsExactly(dir, rows) ==
    /\ DOMAIN dir = {rows[i].id : i \in DOMAIN rows}
    /\ \A k \in DOMAIN dir :
          \E i \in DOMAIN rows :
              /\ dir[k] = rows[i]
              /\ rows[i].id = k
              /\ \A j \in DOMAIN rows : j > i => rows[j].id # k

(* the outcomes that empty the directory: timeout, offline rejection and the
   notices handled while offline *)
FailuresEmpty ==
    /\ \A c \in PendingRefreshes :
          c \in DOMAIN timers =>
              /\ DirOf(FireTimer(Cur, c), calls[c].action) = EmptyDir
              /\ OtherDirOf(FireTimer(Cur, c), calls[c].action) = OtherDirOf(Cur, calls[c].action)
    /\ ~online =>
          /\ SetGroupList(Cur).gl = EmptyDir
          /\ SetFriendList(Cur).fl = EmptyDir
          /\ \A f \in RefreshNotices :
                LET st == OnMessage(Cur, WsEvent, f)
                IN  IF f.notice_type = "friend_add"
                    THEN st.fl = EmptyDir /\ st.gl = gl
                    ELSE st.gl = EmptyDir /\ st.fl = fl

(* C22 as stated: a directory refresh replaces the whole directory when its
   request resolves, with exactly the entries of the response when the
   return code is 0 (none when the response carries none) and with the
   empty directory on any other outcome, the offline rejection and the
   timeout included; a friend_add, self-join or self-leave notice handled
   while offline empties the directory. *)
C22_RefreshAlwaysReplaces ==
    /\ \A c \in PendingRefreshes : \A f \in ListFrames :
          f.echo = c =>
              LET new == DirOf(OnMessage(Cur, WsApi, f), calls[c].action)
              IN  IF f.retcode = 0
                  THEN HoldsExactly(new, IF IsArray(f.data) THEN Rows(f.data) ELSE << >>)
                  ELSE new = EmptyDir
    /\ FailuresEmpty

(* C22, amended: when the request of a directory refresh resolves with
   return code 0 and an array as data, the directory is replaced by exactly
   the entries of the array, keyed by id, the last entry of an id standing;
   with return code 0 and data that is no array the directory is left as it
   was; with any other return code, the offline rejection and the timeout
   included, it is replaced by the empty directory.  The other directory is
   not touched.  A friend_add, self-join, self-leave or kick notice handled
   while offline empties the corresponding directory. *)
C22_RefreshReplaces ==
    /\ \A c \in PendingRefreshes : \A f \in ListFrames :
          f.echo = c =>
              LET st == OnMessage(Cur, WsApi, f)
                  new == DirOf(st, calls[c].action)
              IN  /\ IF f.retcode = 0
                     THEN IF IsArray(f.data)
                          THEN HoldsExactly(new, Rows(f.data))
                          ELSE new = DirOf(Cur, calls[c].action)
                     ELSE new = EmptyDir
                  /\ OtherDirOf(st, calls[c].action) = OtherDirOf(Cur, calls[c].action)
                  /\ c \notin DOMAIN st.calls
    /\ FailuresEmpty

(* offline with a group directory of two entries loaded by a refresh, which
   the notice of the client leaving a group now empties; the friend
   directory has been emptied already *)
C22_Witness ==
    /\ ~online
    /\ HoldsExactly(gl, Rows(2))
    /\ fl = EmptyDir
    /\ oneBotVersion # 0
    /\ OnMessage(Cur, WsEvent, NoticeFrame("group_decrease", "", uin)).gl = EmptyDir
----------------------------------------------------------------------------
(* two requests of one directory pending at once, and a response for each *)
RefreshPairs ==
    {p \in PendingRefreshes \X PendingRefreshes :
        p[1] # p[2] /\ calls[p[1]].action = calls[p[2]].action}

ResponsesTo(c) == {f \in ListFrames : f.echo = c}

(* new is what the resolution f makes of the directory old *)
Written(new, old, f) ==
    IF f.retcode = 0
    THEN IF IsArray(f.data) THEN HoldsExactly(new, Rows(f.data)) ELSE new = old
    ELSE new = EmptyDir

(* new is the content of the resolution f, which is empty when f carries no
   entries *)
ContentOf(new, f) ==
    IF f.retcode = 0 /\ IsArray(f.data) THEN HoldsExactly(new, Rows(f.data)) ELSE new = EmptyDir

(* the resolutions a handler makes of requests of the given action *)
ResolutionsOf(st, action) ==
    {i \in 1..Len(Resolved(st)) : Resolved(st)[i].name = action}

(* a handler that resolves no refresh of a directory leaves the directory
   alone and every pending refresh pending, the heartbeat that takes the
   client offline included *)
OnlyResolutionsWrite ==
    \A s \in Sockets, f \in HeartbeatFrames \cup RefreshNotices \cup ListFrames :
        LET st == OnMessage(Cur, s, f)
        IN  \A a \in RefreshActions :
                ResolutionsOf(st, a) = {} =>
                    /\ DirOf(st, a) = DirOf(Cur, a)
                    /\ \A c \in PendingRefreshes : calls[c].action = a => c \in DOMAIN st.calls

(* C23 as stated: with several refreshes of one directory outstanding, the
   directory equals, once they have resolved, the content of the resolution
   delivered last, whichever request was issued last, online or offline. *)
C23_LastDeliveredContent ==
    /\ \A p \in RefreshPairs : \A f1 \in ResponsesTo(p[1]), f2 \in ResponsesTo(p[2]) :
          LET st1 == Fields(OnMessage(Cur, WsApi, f1))
              st2 == OnMessage(st1, WsApi, f2)
          IN  ContentOf(DirOf(st2, calls[p[1]].action), f2)
    /\ OnlyResolutionsWrite

(* C23, amended: with several refreshes of one directory outstanding, each
   resolution writes the directory when it is delivered, in delivery order
   and whatever the order of the requests and the online flag: a failure
   empties it, a success with an array replaces it by the entries of the
   array, a success without an array leaves what the resolution delivered
   before it wrote.  So the directory equals, once all have resolved, the
   content of the last delivered resolution that is a failure or carries
   an array; a timeout delivered last empties it; and nothing but a
   resolution writes it or retires a pending refresh, so a refresh pending
   across an offline transition still writes when it resolves. *)
C23_LastDeliveredWins ==
    /\ \A p \in RefreshPairs : \A f1 \in ResponsesTo(p[1]), f2 \in ResponsesTo(p[2]) :
          LET a == calls[p[1]].action
              st1 == Fields(OnMessage(Cur, WsApi, f1))
              st2 == OnMessage(st1, WsApi, f2)
              st3 == FireTimer(st1, p[2])
          IN  /\ Written(DirOf(st1, a), DirOf(Cur, a), f1)
              /\ Written(DirOf(st2, a), DirOf(st1, a), f2)
              /\ DirOf(st3, a) = EmptyDir
              /\ {p[1], p[2]} \cap DOMAIN st2.calls = {}
              /\ OtherDirOf(st2, a) = OtherDirOf(Cur, a)
    /\ OnlyResolutionsWrite

(* offline with two refreshes of the group directory pending, issued at
   different times while online, the directory holding what an earlier
   resolution wrote *)
C23_Witness ==
    /\ ~online
    /\ gl # EmptyDir
    /\ \E p \in RefreshPairs :
          /\ calls[p[1]].action = "get_group_list"
          /\ timers[p[1]].left < timers[p[2]].left
====
